---- MODULE Spec2Model ----
(***************************************************************************)
(* Bot Deployment API (src/main.py): an in-memory registry of rendered bot *)
(* frontends keyed by subdomain, an in-memory log store keyed by botname,  *)
(* and the request handlers that read and write them.                      *)
(*                                                                         *)
(* Text the code inspects character by character (botnames, subdomains,    *)
(* chat messages) is a sequence of one-character strings.  Text the code   *)
(* only stores or compares whole (levels, colours, literals) is a string.  *)
(* An Optional field is <<>> for None and <<v>> for a value v.             *)
(***************************************************************************)
EXTENDS Integers, Sequences, FiniteSets, TLC

\* ------------------------------------------------------------------ bounds
\* Under Spec and SpecChat handle_chat is taken at most MaxChats times for a
\* botname.
MaxChats == 1
\* Under SpecLogs handle_chat is taken at most MaxQueryChats times for a
\* botname.
MaxQueryChats == 2
\* LogsRequest.limit is drawn from -MaxLimit..MaxLimit.
MaxLimit == 3

\* ------------------------------------------------------------------- text
BASE_URL == "http://localhost:8000"

UpperCase == <<"A","B","C","D","E","F","G","H","I","J","K","L","M",
               "N","O","P","Q","R","S","T","U","V","W","X","Y","Z">>
LowerCase == <<"a","b","c","d","e","f","g","h","i","j","k","l","m",
               "n","o","p","q","r","s","t","u","v","w","x","y","z">>
DigitChars == <<"0","1","2","3","4","5","6","7","8","9">>

Range(s) == { s[i] : i \in DOMAIN s }

UpperChars == Range(UpperCase)

\* str.lower() on one character
LowerChar(c) ==
    IF c \in UpperChars
    THEN LowerCase[CHOOSE i \in DOMAIN UpperCase : UpperCase[i] = c]
    ELSE c

\* str.lower()
Lower(s) == [i \in 1..Len(s) |-> LowerChar(s[i])]

\* the character class [a-z0-9] of generate_subdomain's pattern
SlugChars == Range(LowerCase) \cup Range(DigitChars)

\* re.sub(r'[^a-z0-9]', '-', botname.lower())
generate_subdomain(botname) ==
    LET lowered == Lower(botname)
    IN  [i \in 1..Len(botname) |->
            IF lowered[i] \in SlugChars THEN lowered[i] ELSE "-"]

\* needle in haystack (Python's substring test)
Contains(haystack, needle) ==
    \E i \in 0..(Len(haystack) - Len(needle)) :
        SubSeq(haystack, i + 1, i + Len(needle)) = needle

\* str(n) for an int
RECURSIVE IntToStr(_)
IntToStr(n) ==
    IF n < 0 THEN "-" \o IntToStr(-n)
    ELSE IF n < 10 THEN DigitChars[n + 1]
    ELSE IntToStr(n \div 10) \o DigitChars[(n % 10) + 1]

\* Optional values
None == <<>>
Some(v) == <<v>>

\* dict.get(key, default): the default is used only when the key is missing
DictGet(d, key, default) == IF key \in DOMAIN d THEN d[key] ELSE Some(default)

\* an f-string's {value} for an Optional[str] field
FStr(v) == IF v = None THEN "None" ELSE v[1]
\* an f-string's {value} for an Optional[int] field
FInt(v) == IF v = None THEN "None" ELSE IntToStr(v[1])

\* f"{BASE_URL}/bot/{subdomain}"
BotUrl(subdomain) == <<BASE_URL, "/bot/", subdomain>>

\* --------------------------------------------------------------- templates
\* The document is the sequence of its interpolated values, in the order the
\* template places them, after a first element naming the template's literal
\* text.
generate_llm_html(config) ==
    << "llm-template",
       FStr(DictGet(config, "title", "AI Chat")),
       FStr(DictGet(config, "backgroundColor", "#f5f5f5")),
       FStr(DictGet(config, "primaryColor", "#007bff")),
       FStr(DictGet(config, "primaryColor", "#007bff")),
       FStr(DictGet(config, "primaryColor", "#007bff")),
       FStr(DictGet(config, "title", "AI Assistant")),
       FStr(DictGet(config, "welcomeMessage", "Hello! How can I help you today?")),
       FStr(DictGet(config, "apiEndpoint", BASE_URL \o "/api/chat")),
       IF "botname" \in DOMAIN config THEN config.botname ELSE <<"default">> >>

generate_logs_html(config) ==
    << "logs-template",
       FStr(DictGet(config, "title", "Logs Dashboard")),
       FStr(DictGet(config, "backgroundColor", "#f5f5f5")),
       FStr(DictGet(config, "primaryColor", "#333")),
       FStr(DictGet(config, "primaryColor", "#007bff")),
       FStr(DictGet(config, "title", "Bot Logs Dashboard")),
       FInt(DictGet(config, "refreshInterval", 3000)),
       FStr(DictGet(config, "apiEndpoint", BASE_URL \o "/api/logs")),
       IF "botname" \in DOMAIN config THEN config.botname ELSE <<"default">>,
       FInt(DictGet(config, "refreshInterval", 3000)) >>

\* ------------------------------------------------------------------ inputs
\* CreateBotRequest.botname, ChatRequest.botname, LogsRequest.botname
BotNames == { <<"A","b">>, <<"a","b">>, <<"a","!">> }

\* the {subdomain} path parameter: the slugs of BotNames and a name that is
\* no slug
PathSubdomains ==
    { generate_subdomain(b) : b \in BotNames } \cup { <<"A","b">> }

\* ChatRequest.botname and LogsRequest.botname under Spec: a name create_bot
\* is given too, and a name no deployment has
ChatNames == { <<"a","b">>, <<"z","z">> }

\* ChatRequest.userMessage
Msg_foo == <<"f","o","o">>
Msg_Hello_there == <<"H","e","l","l","o"," ","t","h","e","r","e">>
Msg_how_ARE_you == <<"h","o","w"," ","A","R","E"," ","y","o","u","?">>
Msg_Help == <<"H","e","l","p">>
Msg_help_hello == <<"h","e","l","p"," ","h","e","l","l","o">>
Msg_how_are_you_help ==
    <<"h","o","w"," ","a","r","e"," ","y","o","u"," ","h","e","l","p">>
Msg_hello_how_are_you ==
    <<"h","e","l","l","o"," ","h","o","w"," ","a","r","e"," ","y","o","u">>
Msg_hell == <<"h","e","l","l">>
Msg_empty == <<>>

ChatMessages == { Msg_Hello_there }

\* the messages under SpecLogs: two, so that entries of one level differ
QueryChatMessages == { Msg_foo, Msg_Hello_there }

AllChatMessages ==
    { Msg_foo, Msg_Hello_there, Msg_how_ARE_you, Msg_Help, Msg_help_hello,
      Msg_how_are_you_help, Msg_hello_how_are_you, Msg_hell, Msg_empty }

\* LogsRequest.level: the sentinel, the four LogEntry levels, the empty
\* string and a string that is no level
LogLevels == { "all", "info", "success", "warning", "error", "", "debug" }

\* LogsRequest.limit
LogLimits == (0 - MaxLimit)..MaxLimit

\* CreateBotRequest.frontendType
FrontendTypes == { "LLM", "Logs", "Chat" }

\* BotConfig: every field Optional, None when absent
BotConfigFields ==
    { "title", "primaryColor", "backgroundColor", "apiEndpoint",
      "welcomeMessage", "refreshInterval" }

EmptyConfig == [ f \in BotConfigFields |-> None ]

FullConfig ==
    [ title |-> Some("Helper"), primaryColor |-> Some("#ff0000"),
      backgroundColor |-> Some("#000000"),
      apiEndpoint |-> Some("https://example.org/api"),
      welcomeMessage |-> Some("Welcome"), refreshInterval |-> Some(5000) ]

BotConfigs == { EmptyConfig, FullConfig }

\* the values datetime.now().isoformat() returns.  The handlers store and
\* return a timestamp and never compare or compute with it, so one value
\* stands for them all.
Times == { "T0" }

\* the values str(uuid.uuid4()) returns
Uuids == { "u1", "u2" }

\* ------------------------------------------------------------------- state
VARIABLES
    deployments,   \* subdomain -> deployment record, in insertion order
    logs,          \* botname -> sequence of log entries
    resp           \* the last request and the response it got

vars == << deployments, logs, resp >>

\* deployments is iterated (list_deployments), so it is kept as Python keeps a
\* dict: the sequence of its <<key, value>> items in insertion order.
\* d.keys()
Keys(d) == { d[i][1] : i \in DOMAIN d }

\* key in d
Has(d, key) == key \in Keys(d)

\* d[key]
Item(d, key) == d[CHOOSE i \in DOMAIN d : d[i][1] = key][2]

\* An assignment that rebinds the dict: d = {key: value}.
SetItem_Only(d, key, value) == << <<key, value>> >>

\* d[key] = value: a present key keeps its place, a new key goes last
SetItem(d, key, value) ==
    IF Has(d, key)
    THEN [ i \in DOMAIN d |-> IF d[i][1] = key THEN <<key, value>> ELSE d[i] ]
    ELSE Append(d, <<key, value>>)

\* A del that removes nothing.
DelItem_Keep(d, key) == d

\* A del that removes the oldest item, whatever the key.
DelItem_First(d, key) == Tail(d)

\* del d[key]
DelItem(d, key) == SelectSeq(d, LAMBDA item : item[1] # key)

\* list(d.values())
Values(d) == [ i \in DOMAIN d |-> d[i][2] ]

\* logs is never iterated, so it is kept as the function from its keys.
EmptyDict == [ k \in {} |-> None ]

\* d[key] = value
DictSet(d, key, value) ==
    [ k \in (DOMAIN d) \cup {key} |-> IF k = key THEN value ELSE d[k] ]

Init ==
    /\ deployments = <<>>
    /\ logs = EmptyDict
    /\ resp = [ op |-> "none" ]

\* uuid4 does not return the id of a stored deployment
FreshUuids == Uuids \ { Values(deployments)[i].id : i \in DOMAIN deployments }

\* A create_bot without its existence check.
SlugTaken_Never(subdomain) == FALSE

\* "if subdomain in deployments" (create_bot)
SlugTaken(subdomain) == Has(deployments, subdomain)

\* --------------------------------------------------------------- create_bot
\* config = request.config.dict(); config['botname'] = request.botname
ConfigDict(botname, config) ==
    [ k \in (DOMAIN config) \cup {"botname"} |->
        IF k = "botname" THEN botname ELSE config[k] ]

\* the body of create_bot's try block: what it returns or raises, and the
\* registry it leaves
CreateTry(botname, frontendType, config, t, u) ==
    LET subdomain == generate_subdomain(botname)
        cfg == ConfigDict(botname, config)
    IN  IF SlugTaken(subdomain)
        THEN [ raised |-> FALSE, code |-> 200,
               body |-> [ error |-> "Botname already exists",
                          existing_url |-> BotUrl(subdomain) ],
               registry |-> deployments ]
        ELSE IF frontendType \notin { "LLM", "Logs" }
        THEN [ raised |-> TRUE, code |-> 400,
               body |-> [ detail |->
                   "Invalid frontendType. Must be \"LLM\" or \"Logs\"" ],
               registry |-> deployments ]
        ELSE LET html == IF frontendType = "LLM"
                         THEN generate_llm_html(cfg)
                         ELSE generate_logs_html(cfg)
                 deployment ==
                     [ id |-> u,
                       botname |-> botname,
                       subdomain |-> subdomain,
                       frontendType |-> frontendType,
                       config |-> cfg,
                       html |-> html,
                       created |-> t,
                       status |-> "deployed" ]
             IN [ raised |-> FALSE, code |-> 200,
                  body |-> [ success |-> TRUE,
                             url |-> BotUrl(subdomain),
                             botname |-> botname,
                             frontendType |-> frontendType,
                             status |-> "deployed" ],
                  registry |-> SetItem(deployments, subdomain, deployment) ]

\* except Exception as e: raise HTTPException(status_code=500, ...).
\* HTTPException is an Exception, so the 400 raised in the try block is caught
\* here too; str(e) of an HTTPException is "<status_code>: <detail>".
CreateExcept(out) ==
    IF out.raised
    THEN [ out EXCEPT
             !.code = 500,
             !.body = [ detail |-> << "Internal server error: ",
                                      IntToStr(out.code), ": ",
                                      out.body.detail >> ] ]
    ELSE out

\* POST /api/create
create_bot(botname, frontendType, config, t, u) ==
    LET out == CreateExcept(CreateTry(botname, frontendType, config, t, u))
    IN  /\ out.registry # deployments => u \in FreshUuids
        /\ deployments' = out.registry
        /\ resp' = [ op |-> "create", botname |-> botname,
                     frontendType |-> frontendType, config |-> config,
                     code |-> out.code, body |-> out.body ]
        /\ UNCHANGED logs

\* ------------------------------------------------------- registry lookups
\* GET /bot/{subdomain}
serve_bot_frontend(subdomain) ==
    /\ resp' = IF ~Has(deployments, subdomain)
               THEN [ op |-> "serve", subdomain |-> subdomain, code |-> 404,
                      body |-> [ detail |-> << "Bot '", subdomain,
                                               "' not found" >> ] ]
               ELSE [ op |-> "serve", subdomain |-> subdomain, code |-> 200,
                      body |-> Item(deployments, subdomain).html ]
    /\ UNCHANGED << deployments, logs >>

\* GET /api/status/{subdomain}
get_deployment_status(subdomain) ==
    /\ resp' = IF ~Has(deployments, subdomain)
               THEN [ op |-> "status", subdomain |-> subdomain, code |-> 404,
                      body |-> [ detail |-> "Deployment not found" ] ]
               ELSE LET deployment == Item(deployments, subdomain)
                    IN [ op |-> "status", subdomain |-> subdomain,
                         code |-> 200,
                         body |-> [ botname |-> deployment.botname,
                                    status |-> deployment.status,
                                    created |-> deployment.created,
                                    frontendType |-> deployment.frontendType ] ]
    /\ UNCHANGED << deployments, logs >>

\* A summary that hands out the stored record whole.
DeploymentInfo_Raw(d) == d

\* the summary list_deployments builds for one stored deployment
DeploymentInfo(d) ==
    [ botname |-> d.botname,
      subdomain |-> d.subdomain,
      frontendType |-> d.frontendType,
      status |-> d.status,
      created |-> d.created,
      url |-> BotUrl(d.subdomain) ]

\* GET /api/deployments
list_deployments ==
    /\ resp' = [ op |-> "list", code |-> 200,
                 body |-> [ deployments |->
                     [ i \in DOMAIN deployments |->
                         DeploymentInfo(Values(deployments)[i]) ] ] ]
    /\ UNCHANGED << deployments, logs >>

\* DELETE /api/delete/{subdomain}
delete_deployment(subdomain) ==
    IF ~Has(deployments, subdomain)
    THEN /\ resp' = [ op |-> "delete", subdomain |-> subdomain, code |-> 404,
                      body |-> [ detail |-> "Deployment not found" ] ]
         /\ UNCHANGED << deployments, logs >>
    ELSE LET deployment == Item(deployments, subdomain)
         IN /\ deployments' = DelItem(deployments, subdomain)
            /\ resp' = [ op |-> "delete", subdomain |-> subdomain,
                         code |-> 200,
                         body |-> [ success |-> TRUE,
                                    message |-> << "Bot '", deployment.botname,
                                                   "' deleted successfully" >> ] ]
            /\ UNCHANGED logs

\* GET /health
health_check(t) ==
    /\ resp' = [ op |-> "health", code |-> 200,
                 body |-> [ status |-> "healthy",
                            deployments |-> Len(deployments),
                            base_url |-> BASE_URL,
                            timestamp |-> t ] ]
    /\ UNCHANGED << deployments, logs >>

\* ------------------------------------------------------------ handle_chat
StrHello == <<"h","e","l","l","o">>
StrHowAreYou == <<"h","o","w"," ","a","r","e"," ","y","o","u">>
StrHelp == <<"h","e","l","p">>

\* The replies are kept as one piece each; the last piece of the greeting is
\* the four characters U+00F0 U+0178 U+2018 U+2039 the source file holds.
Greeting == << "Hello! Nice to meet you! ", "U+00F0 U+0178 U+2018 U+2039" >>
WellnessReply ==
    << "I'm doing great! Thanks for asking. How can I help you today?" >>
HelpReply ==
    << "I'm here to help! Ask me anything and I'll do my best to assist you." >>
EchoPrefix == << "You said: " >>

\* An if/elif chain that tests "help" before "hello".
BotResponse_HelpFirst(userMessage) ==
    IF Contains(Lower(userMessage), StrHelp) THEN HelpReply
    ELSE IF Contains(Lower(userMessage), StrHello) THEN Greeting
    ELSE IF Contains(Lower(userMessage), StrHowAreYou) THEN WellnessReply
    ELSE EchoPrefix \o userMessage

\* bot_response, as handle_chat's assignment and if/elif chain leave it
BotResponse(userMessage) ==
    IF Contains(Lower(userMessage), StrHello) THEN Greeting
    ELSE IF Contains(Lower(userMessage), StrHowAreYou) THEN WellnessReply
    ELSE IF Contains(Lower(userMessage), StrHelp) THEN HelpReply
    ELSE EchoPrefix \o userMessage

\* An append that starts the list anew: logs[botname] = [entry].
LogAppend_Reset(store, botname, entry) == DictSet(store, botname, << entry >>)

\* logs[botname].append(entry), after "if botname not in logs: logs[botname] = []"
LogAppend(store, botname, entry) ==
    DictSet(store, botname,
            Append(IF botname \in DOMAIN store THEN store[botname] ELSE <<>>,
                   entry))

\* the log store handle_chat leaves
ChatLogs(botname, userMessage, t) ==
    LET log_entry == [ timestamp |-> t, level |-> "info",
                       message |-> <<"User: ">> \o userMessage,
                       botname |-> botname ]
        reply_entry == [ timestamp |-> t, level |-> "success",
                         message |-> <<"Bot: ">> \o BotResponse(userMessage),
                         botname |-> botname ]
    IN  LogAppend(LogAppend(logs, botname, log_entry), botname, reply_entry)

\* the number of entries stored for botname
LogLen(botname) == IF botname \in DOMAIN logs THEN Len(logs[botname]) ELSE 0

\* POST /api/chat.  The handler's datetime.now() calls fall within one tick of
\* the model's clock.
handle_chat(botname, userMessage, t) ==
    /\ logs' = ChatLogs(botname, userMessage, t)
    /\ resp' = [ op |-> "chat", botname |-> botname,
                 userMessage |-> userMessage, code |-> 200,
                 body |-> [ botResponse |-> BotResponse(userMessage),
                            timestamp |-> t ] ]
    /\ UNCHANGED deployments

\* --------------------------------------------------------------- get_logs
\* A slice that keeps the first -k items, as s[:limit] would.
SliceFrom_Head(s, k) ==
    SubSeq(s, 1, IF 0 - k > Len(s) THEN Len(s) ELSE 0 - k)

\* s[k:] as Python slices a list
SliceFrom(s, k) ==
    LET start == IF k < 0 THEN (IF Len(s) + k < 0 THEN 0 ELSE Len(s) + k)
                 ELSE (IF k > Len(s) THEN Len(s) ELSE k)
    IN  SubSeq(s, start + 1, Len(s))

\* list(reversed(s))
Reversed(s) == [ i \in 1..Len(s) |-> s[Len(s) + 1 - i] ]

\* A get_logs that never filters.
LevelFilter_Off(all_logs, level) == all_logs

\* "if request.level and request.level != 'all'": the empty string is falsy
LevelFilter(all_logs, level) ==
    IF level # "" /\ level # "all"
    THEN SelectSeq(all_logs, LAMBDA log : log.level = level)
    ELSE all_logs

\* limited_logs
LimitedLogs(store, botname, level, limit) ==
    LET all_logs == IF botname \in DOMAIN store THEN store[botname] ELSE <<>>
    IN  SliceFrom(LevelFilter(all_logs, level), 0 - limit)

\* POST /api/logs
get_logs(botname, level, limit) ==
    LET limited_logs == LimitedLogs(logs, botname, level, limit)
    IN  /\ resp' = [ op |-> "logs", botname |-> botname, level |-> level,
                     limit |-> limit, code |-> 200,
                     body |-> [ logs |-> Reversed(limited_logs),
                                count |-> Len(limited_logs) ] ]
        /\ UNCHANGED << deployments, logs >>

\* ---------------------------------------------------------- specifications
\* The whole service.
Next ==
    \/ \E botname \in BotNames, frontendType \in FrontendTypes,
          config \in BotConfigs, t \in Times, u \in Uuids :
            create_bot(botname, frontendType, config, t, u)
    \/ \E subdomain \in PathSubdomains : serve_bot_frontend(subdomain)
    \/ \E subdomain \in PathSubdomains : get_deployment_status(subdomain)
    \/ list_deployments
    \/ \E subdomain \in PathSubdomains : delete_deployment(subdomain)
    \/ \E t \in Times : health_check(t)
    \/ \E botname \in ChatNames, userMessage \in ChatMessages, t \in Times :
            /\ LogLen(botname) < 2 * MaxChats
            /\ handle_chat(botname, userMessage, t)
    \/ \E botname \in ChatNames, level \in { "all", "info" } :
            get_logs(botname, level, 1)

Spec == Init /\ [][Next]_vars

\* The log store under every level and limit.
NextLogs ==
    \/ \E botname \in ChatNames, userMessage \in QueryChatMessages,
          t \in Times :
            /\ LogLen(botname) < 2 * MaxQueryChats
            /\ handle_chat(botname, userMessage, t)
    \/ \E botname \in ChatNames, level \in LogLevels, limit \in LogLimits :
            get_logs(botname, level, limit)

SpecLogs == Init /\ [][NextLogs]_vars

\* The chat rules under every message, beside a registry that changes.
NextChat ==
    \/ \E botname \in ChatNames, userMessage \in AllChatMessages,
          t \in Times :
            /\ LogLen(botname) < 2 * MaxChats
            /\ handle_chat(botname, userMessage, t)
    \/ \E frontendType \in FrontendTypes, t \in Times, u \in Uuids :
            create_bot(<<"a","b">>, frontendType, EmptyConfig, t, u)
    \/ delete_deployment(<<"a","b">>)

SpecChat == Init /\ [][NextChat]_vars

\* Every handler beside a log store that grows past one chat per botname.
NextStores ==
    \/ \E botname \in ChatNames, userMessage \in QueryChatMessages,
          t \in Times :
            /\ LogLen(botname) < 2 * MaxQueryChats
            /\ handle_chat(botname, userMessage, t)
    \/ \E frontendType \in FrontendTypes, t \in Times, u \in Uuids :
            create_bot(<<"a","b">>, frontendType, EmptyConfig, t, u)
    \/ delete_deployment(<<"a","b">>)
    \/ serve_bot_frontend(<<"a","b">>)
    \/ get_deployment_status(<<"a","b">>)
    \/ list_deployments
    \/ \E t \in Times : health_check(t)
    \/ \E botname \in ChatNames : get_logs(botname, "all", 1)

SpecStores == Init /\ [][NextStores]_vars

\* ------------------------------------------------------------------ claims
\* the subdomain of the create request in resp
RespSlug == generate_subdomain(resp.botname)

\* the payload create_bot answers a taken subdomain with
ConflictBody(subdomain) ==
    [ error |-> "Botname already exists",
      existing_url |-> << BASE_URL, "/bot/", subdomain >> ]

\* C1: a create whose botname slugifies to a stored subdomain, whatever its
\* frontendType and config, answers 200 with the conflict payload (error and
\* the existing URL <base>/bot/<slug>) and leaves the registry, and so the
\* stored record, exactly as it was.
C1_CreateNeverOverwrites ==
    [][ (resp'.op = "create" /\ Has(deployments, RespSlug'))
        => /\ resp'.code = 200
           /\ resp'.body = ConflictBody(RespSlug')
           /\ deployments' = deployments
           /\ Item(deployments', RespSlug') = Item(deployments, RespSlug') ]_vars

\* a create of another botname with the same subdomain, and an unsupported
\* frontendType, was answered with the conflict payload
C1_Witness ==
    /\ resp.op = "create"
    /\ resp.body = ConflictBody(RespSlug)
    /\ resp.frontendType = "Chat"
    /\ Has(deployments, RespSlug)
    /\ Item(deployments, RespSlug).botname # resp.botname

\* C2: a create whose subdomain is free and whose frontendType is neither
\* "LLM" nor "Logs" is answered with status 400.
C2_InvalidTypeIs400 ==
    [][ ( /\ resp'.op = "create"
          /\ ~Has(deployments, RespSlug')
          /\ resp'.frontendType \notin { "LLM", "Logs" } )
        => resp'.code = 400 ]_vars

\* the entries stored for a botname
Stored(botname) == IF botname \in DOMAIN logs THEN logs[botname] ELSE <<>>

\* the entries of a botname that pass a level filter, in append order, "all"
\* being the one filter that passes everything
Matching(botname, level) ==
    IF level = "all" THEN Stored(botname)
    ELSE SelectSeq(Stored(botname), LAMBDA e : e.level = level)

\* the last k entries of m, most recent first
LastFirst(m, k) == [ i \in 1..k |-> m[Len(m) + 1 - i] ]

Min(a, b) == IF a <= b THEN a ELSE b

\* C3: a logs query with limit <= 0 returns the empty list and count 0, and
\* one with limit above the number of matching entries returns them all.
\* (The empty level filter is C5's subject and is left out here.)
C3_LimitEdges ==
    (resp.op = "logs" /\ resp.level # "")
    => LET m == Matching(resp.botname, resp.level)
       IN  /\ resp.limit <= 0
               => resp.body.logs = <<>> /\ resp.body.count = 0
           /\ resp.limit > Len(m)
               => /\ resp.body.logs = LastFirst(m, Len(m))
                  /\ resp.body.count = Len(m)

\* C4: for a level in {all, info, success, warning, error} and a limit >= 1
\* the logs query returns exactly the last min(limit, n) entries of the
\* level-filtered sequence, most recent first, and count is the length of
\* the returned list; a botname with no entries gets the empty list.
C4_LastLimitMostRecentFirst ==
    ( /\ resp.op = "logs"
      /\ resp.level \in { "all", "info", "success", "warning", "error" }
      /\ resp.limit >= 1 )
    => LET m == Matching(resp.botname, resp.level)
           k == Min(resp.limit, Len(m))
       IN  /\ resp.body.logs = LastFirst(m, k)
           /\ resp.body.count = Len(resp.body.logs)
           /\ resp.body.count = k
           /\ Stored(resp.botname) = <<>>
               => resp.body.logs = <<>> /\ resp.body.count = 0

\* of four stored entries, two of them info entries that differ, the query
\* for one info entry returned the later one
C4_Witness ==
    /\ resp.op = "logs"
    /\ resp.level = "info"
    /\ resp.limit = 1
    /\ Len(Stored(resp.botname)) = 4
    /\ Stored(resp.botname)[1] # Stored(resp.botname)[3]
    /\ resp.body.logs = << Stored(resp.botname)[3] >>

\* C5 as claimed: for every level filter other than "all", the empty string
\* included, every returned entry has the filter's level.
C5_OnlyAllDisablesFilter ==
    (resp.op = "logs" /\ resp.level # "all")
    => \A i \in DOMAIN resp.body.logs : resp.body.logs[i].level = resp.level

\* C5 as amended: for every non-empty level filter other than "all", a
\* string that is no level included, every returned entry has the filter's
\* level; "all" and the empty string disable filtering, so a limit above the
\* number of stored entries returns every one of them.
C5_NonEmptyFilterSelects ==
    resp.op = "logs"
    => /\ resp.level \notin { "all", "" }
           => \A i \in DOMAIN resp.body.logs :
                  resp.body.logs[i].level = resp.level
       /\ (resp.level \in { "all", "" }
              /\ resp.limit > Len(Stored(resp.botname)))
           => resp.body.count = Len(Stored(resp.botname))

\* a "success" query over four stored entries returned the two success ones
C5_Witness ==
    /\ resp.op = "logs"
    /\ resp.level = "success"
    /\ resp.limit = 3
    /\ Len(Stored(resp.botname)) = 4
    /\ resp.body.count = 2

\* C6: the document stored for a deployment carries, for each config field
\* left absent, the field's literal default in the field's place.
C6_AbsentFieldsRenderDefaults ==
    \A i \in DOMAIN deployments :
        LET d == deployments[i][2]
            c == d.config
            h == d.html
        IN  /\ d.frontendType = "LLM"
                => /\ c.title = None => h[2] = "AI Chat"
                   /\ c.backgroundColor = None => h[3] = "#f5f5f5"
                   /\ c.primaryColor = None => h[4] = "#007bff"
                   /\ c.welcomeMessage = None
                       => h[8] = "Hello! How can I help you today?"
                   /\ c.apiEndpoint = None => h[9] = BASE_URL \o "/api/chat"
            /\ d.frontendType = "Logs"
                => /\ c.title = None => h[2] = "Logs Dashboard"
                   /\ c.backgroundColor = None => h[3] = "#f5f5f5"
                   /\ c.primaryColor = None => h[5] = "#007bff"
                   /\ c.refreshInterval = None => h[7] = "3000"
                   /\ c.apiEndpoint = None => h[8] = BASE_URL \o "/api/logs"

\* a successful create of the subdomain in resp
CreatedIn(r, subdomain) ==
    /\ r.op = "create"
    /\ r.code = 200
    /\ "success" \in DOMAIN r.body
    /\ generate_subdomain(r.botname) = subdomain

\* a successful delete of the subdomain in resp
DeletedIn(r, subdomain) ==
    r.op = "delete" /\ r.code = 200 /\ r.subdomain = subdomain

\* C7: a successful delete removes the subdomain; a subdomain that is not
\* stored stays so until a create of it succeeds, and until then status and
\* serveFrontend answer 404 for it; a delete of a subdomain that is not
\* stored answers 404 and leaves the registry as it was.
C7_DeletedStaysNotFound ==
    [][ /\ \A s \in PathSubdomains :
              /\ DeletedIn(resp', s)
                  => Has(deployments, s) /\ ~Has(deployments', s)
              /\ (~Has(deployments, s) /\ Has(deployments', s))
                  => CreatedIn(resp', s)
        /\ ( /\ resp'.op \in { "status", "serve", "delete" }
             /\ ~Has(deployments, resp'.subdomain) )
            => resp'.code = 404 /\ deployments' = deployments ]_vars

\* a successful delete has removed one of two stored deployments
C7_Witness ==
    /\ resp.op = "delete"
    /\ resp.code = 200
    /\ ~Has(deployments, resp.subdomain)
    /\ Len(deployments) = 1

\* C8: listDeployments returns one summary per stored deployment, each
\* without the rendered HTML, with subdomain the slug of its botname, url
\* <base>/bot/<subdomain>, frontendType LLM or Logs and status "deployed";
\* health reports as many deployments as listDeployments returns.
C8_ListAndHealthMatchRegistry ==
    /\ resp.op = "list"
        => LET l == resp.body.deployments
           IN  /\ Len(l) = Len(deployments)
               /\ \A i, j \in DOMAIN l : l[i].subdomain = l[j].subdomain => i = j
               /\ \A i \in DOMAIN l :
                   /\ DOMAIN l[i] = { "botname", "subdomain", "frontendType",
                                      "status", "created", "url" }
                   /\ Has(deployments, l[i].subdomain)
                   /\ l[i].botname = Item(deployments, l[i].subdomain).botname
                   /\ l[i].created = Item(deployments, l[i].subdomain).created
                   /\ l[i].frontendType =
                          Item(deployments, l[i].subdomain).frontendType
                   /\ l[i].subdomain = generate_subdomain(l[i].botname)
                   /\ l[i].url = << BASE_URL, "/bot/", l[i].subdomain >>
                   /\ l[i].frontendType \in { "LLM", "Logs" }
                   /\ l[i].status = "deployed"
    /\ resp.op = "health" => resp.body.deployments = Len(deployments)

\* listDeployments returned two summaries
C8_Witness ==
    /\ resp.op = "list"
    /\ Len(resp.body.deployments) = 2
    /\ resp.body.deployments[1].frontendType
           # resp.body.deployments[2].frontendType

\* C9: a stored record changes in no step: it stays as it is or it is removed
\* by a successful delete of its own subdomain.  A successful create stores
\* the request's botname and frontendType with status "deployed"; status
\* answers with the stored botname, frontendType, created time and status,
\* and serveFrontend with the stored HTML.
C9_RecordImmutable ==
    [][ /\ \A s \in Keys(deployments) :
              IF Has(deployments', s)
              THEN Item(deployments', s) = Item(deployments, s)
              ELSE DeletedIn(resp', s)
        /\ \A s \in PathSubdomains :
              (CreatedIn(resp', s) /\ ~Has(deployments, s))
              => /\ Has(deployments', s)
                 /\ Item(deployments', s).botname = resp'.botname
                 /\ Item(deployments', s).frontendType = resp'.frontendType
                 /\ Item(deployments', s).status = "deployed"
        /\ (resp'.op = "status" /\ Has(deployments, resp'.subdomain))
            => LET d == Item(deployments, resp'.subdomain)
               IN  /\ resp'.code = 200
                   /\ resp'.body = [ botname |-> d.botname,
                                     status |-> "deployed",
                                     created |-> d.created,
                                     frontendType |-> d.frontendType ]
        /\ (resp'.op = "serve" /\ Has(deployments, resp'.subdomain))
            => /\ resp'.code = 200
               /\ resp'.body = Item(deployments, resp'.subdomain).html ]_vars

\* status answered for a stored deployment after a chat and beside another
\* deployment
C9_Witness ==
    /\ resp.op = "status"
    /\ resp.code = 200
    /\ Len(deployments) = 2
    /\ logs # EmptyDict

\* the keyword at place i of the lower-cased message
KeywordAt(message, keyword, i) ==
    \A j \in 1..Len(keyword) : LowerChar(message[i + j - 1]) = keyword[j]

\* the lower-cased message contains the keyword
Mentions(message, keyword) ==
    \E i \in 1..(Len(message) - Len(keyword) + 1) :
        KeywordAt(message, keyword, i)

\* the chat rules in their fixed order
ChatRules ==
    << << StrHello, Greeting >>,
       << StrHowAreYou, WellnessReply >>,
       << StrHelp, HelpReply >> >>

\* the reply of the first rule the message matches, else the echo
FirstRuleReply(message) ==
    LET hits == { r \in DOMAIN ChatRules : Mentions(message, ChatRules[r][1]) }
    IN  IF hits = {} THEN << "You said: " >> \o message
        ELSE ChatRules[CHOOSE r \in hits : \A q \in hits : r <= q][2]

\* C10: the chat response is the reply of the first rule, in the order
\* hello, how are you, help, that the lower-cased message matches, else the
\* echo prefix followed by the message unchanged; it depends on the message
\* alone, whatever the botname, the registry and the log store.
C10_ChatFirstMatchingRule ==
    resp.op = "chat"
    => resp.body.botResponse = FirstRuleReply(resp.userMessage)

\* a message matching the help and the hello rule got the greeting, from a
\* botname that has a deployment
C10_Witness ==
    /\ resp.op = "chat"
    /\ resp.userMessage = Msg_help_hello
    /\ resp.body.botResponse = Greeting
    /\ Has(deployments, generate_subdomain(resp.botname))

\* s is a prefix of t
IsPrefix(s, t) == Len(s) <= Len(t) /\ SubSeq(t, 1, Len(s)) = s

\* C11: the log store is append-only: in every step each botname's sequence
\* is a prefix of its next one.  A chat appends exactly two entries to the
\* sequence of the request's botname, an info entry recording the user
\* message and then a success entry recording the response, both carrying
\* that botname, and leaves every other sequence as it was; every other
\* handler leaves the log store as it was.
C11_LogStoreAppendOnly ==
    [][ /\ \A b \in DOMAIN logs :
              b \in DOMAIN logs' /\ IsPrefix(logs[b], logs'[b])
        /\ resp'.op = "chat"
            => LET b == resp'.botname
                   old == Stored(b)
                   new == logs'[b]
               IN  /\ b \in DOMAIN logs'
                   /\ Len(new) = Len(old) + 2
                   /\ SubSeq(new, 1, Len(old)) = old
                   /\ new[Len(old) + 1].level = "info"
                   /\ new[Len(old) + 1].message
                          = << "User: " >> \o resp'.userMessage
                   /\ new[Len(old) + 1].botname = b
                   /\ new[Len(old) + 2].level = "success"
                   /\ new[Len(old) + 2].message
                          = << "Bot: " >> \o resp'.body.botResponse
                   /\ new[Len(old) + 2].botname = b
                   /\ DOMAIN logs' = (DOMAIN logs) \cup { b }
                   /\ \A c \in DOMAIN logs : c # b => logs'[c] = logs[c]
        /\ resp'.op # "chat" => logs' = logs ]_vars

\* a second chat of a botname without a deployment, beside another botname's
\* entries and a stored deployment
C11_Witness ==
    /\ resp.op = "chat"
    /\ ~Has(deployments, generate_subdomain(resp.botname))
    /\ Len(Stored(resp.botname)) = 4
    /\ Stored(resp.botname)[1] # Stored(resp.botname)[3]
    /\ \E c \in DOMAIN logs : c # resp.botname /\ Len(logs[c]) = 2
    /\ Len(deployments) = 1

\* the document the renderer of a frontendType makes of a config
Rendered(frontendType, config) ==
    IF frontendType = "LLM" THEN generate_llm_html(config)
    ELSE generate_logs_html(config)

\* C12: a create that does not answer with success leaves the registry and
\* the log store exactly as they were; a create that answers with success
\* has added exactly one record, keyed by the slug of the botname and holding
\* the rendered HTML, and changed no other record and no log.
C12_CreateAllOrNothing ==
    [][ resp'.op = "create"
        => /\ logs' = logs
           /\ IF resp'.code = 200 /\ "success" \in DOMAIN resp'.body
              THEN /\ ~Has(deployments, RespSlug')
                   /\ Len(deployments') = Len(deployments) + 1
                   /\ Keys(deployments') = Keys(deployments) \cup { RespSlug' }
                   /\ \A s \in Keys(deployments) :
                          Item(deployments', s) = Item(deployments, s)
                   /\ LET d == Item(deployments', RespSlug')
                      IN  /\ d.subdomain = RespSlug'
                          /\ d.botname = resp'.botname
                          /\ d.frontendType = resp'.frontendType
                          /\ d.config.botname = resp'.botname
                          /\ \A f \in BotConfigFields :
                                 d.config[f] = resp'.config[f]
                          /\ d.html = Rendered(d.frontendType, d.config)
              ELSE deployments' = deployments ]_vars

\* a second deployment was created beside a stored one and a non-empty log
\* store
C12_Witness ==
    /\ resp.op = "create"
    /\ resp.code = 200
    /\ "success" \in DOMAIN resp.body
    /\ Len(deployments) = 2
    /\ deployments[2][1] = RespSlug
    /\ logs # EmptyDict

====
